---------------------------- MODULE Spec2Model ----------------------------
(***************************************************************************)
(* State-machine model of the Rhino object-name toolkit:                   *)
(*   rename_objects.py   (rename_objects_unique and its helpers)           *)
(*   view_object_names.py (get_object_name_stats, list_object_info)        *)
(*   utils.py            (get_model_space_objects)                         *)
(*   toolkit.py          (the interactive menu loop, main)                 *)
(*                                                                         *)
(* Object names are Python strings; they are modelled as sequences of      *)
(* character codes so that concatenation, the "{num:03d}" formatting,      *)
(* str.strip and the ordering used by sorted() are computed, not assumed.  *)
(***************************************************************************)
EXTENDS Integers, Sequences, FiniteSets, TLC

(***************************************************************************)
(* Bounds of the model                                                     *)
(***************************************************************************)
\* number of objects in the document
NumObjs == 3

Ids == 1..NumObjs

(***************************************************************************)
(* Strings                                                                 *)
(***************************************************************************)
\* "Object", the fallback literal of `rs.ObjectName(obj_id) or "Object"`
FallbackName == <<79, 98, 106, 101, 99, 116>>

\* the default suffix_fmt " {num:03d}": a literal lead, then num zero-padded
DefaultSuffixFmt == [lead |-> <<32>>, width |-> 3]

\* str.strip() with no argument removes these characters at both ends
Whitespace == {9, 10, 11, 12, 13, 32}

\* Python's  s1 < s2  on strings: lexicographic on code points, a proper
\* prefix is smaller
RECURSIVE StrLess(_, _)
StrLess(a, b) ==
    IF b = <<>> THEN FALSE
    ELSE IF a = <<>> THEN TRUE
    ELSE IF Head(a) # Head(b) THEN Head(a) < Head(b)
    ELSE StrLess(Tail(a), Tail(b))

RECURSIVE LStrip(_)
LStrip(s) ==
    IF s = <<>> THEN s
    ELSE IF Head(s) \in Whitespace THEN LStrip(Tail(s))
    ELSE s

RECURSIVE RStrip(_)
RStrip(s) ==
    IF s = <<>> THEN s
    ELSE IF s[Len(s)] \in Whitespace THEN RStrip(SubSeq(s, 1, Len(s) - 1))
    ELSE s

\* s.strip()
Strip(s) == RStrip(LStrip(s))

\* decimal digits of a natural number, most significant first
RECURSIVE Digits(_)
Digits(n) ==
    IF n < 10 THEN <<48 + n>>
    ELSE Digits(n \div 10) \o <<48 + (n % 10)>>

\* left padding with "0" up to the width w (never truncates)
RECURSIVE ZeroPad(_, _)
ZeroPad(s, w) == IF Len(s) >= w THEN s ELSE ZeroPad(<<48>> \o s, w)

\* suffix_fmt.format(num=n)
FormatSuffix(suffix_fmt, n) ==
    suffix_fmt.lead \o ZeroPad(Digits(n), suffix_fmt.width)

\* str(i) of an object identifier: GUIDs print with a fixed width, so the
\* string order of two identifiers is decided by their digits
StrOfId(i) == ZeroPad(Digits(i), 2)


(***************************************************************************)
(* The document (owned by the host)                                        *)
(***************************************************************************)
\* name : the Name attribute of every object, <<>> when the object is unnamed
\* attr : the attributes the scripts read but never write
\* selected_only, pc : local state of toolkit.main
\* last : what the last operation did (its arguments, report and result)
VARIABLES name, attr, redraw, selected_only, pc, last

vars == <<name, attr, redraw, selected_only, pc, last>>

\* rs.ObjectName(obj_id): the current name, falsy for an unnamed object
ObjectName(nm, obj_id) == nm[obj_id]

\* rs.ObjectName(obj_id, new_name): the name write of the host
SetObjectName(nm, obj_id, new_name) == [nm EXCEPT ![obj_id] = new_name]

\* rs.IsHidden(obj_id), rs.IsObjectLocked(obj_id)
IsHidden(at, obj_id) == at[obj_id].hidden
IsObjectLocked(at, obj_id) == at[obj_id].locked

\* rs.SelectedObjects(): called with its defaults include_lights=False,
\* include_grips=False
SelectedObjects(at) ==
    {i \in Ids : at[i].selected /\ at[i].kind \notin {"Light", "Grip"}}

\* rs.AllObjects(select=False, include_lights=False, include_grips=False):
\* every object of every space, normal, locked or hidden
AllObjects(at, include_lights, include_grips) ==
    {i \in Ids : /\ (include_lights \/ at[i].kind # "Light")
                 /\ (include_grips \/ at[i].kind # "Grip")}

\* utils.get_model_space_objects
get_model_space_objects(at, include_hidden, include_locked, include_grips, include_lights) ==
    {i \in Ids :
        /\ at[i].space = "ModelSpace"
        /\ ~(~include_hidden /\ at[i].hidden)
        /\ ~(~include_locked /\ at[i].locked)
        /\ ~(~include_grips /\ at[i].kind = "Grip")
        /\ ~(~include_lights /\ at[i].kind = "Light")}

\* every order in which a host could hand out the objects of a set
Orderings(S) ==
    {s \in [1..Cardinality(S) -> S] : \A a, b \in DOMAIN s : a # b => s[a] # s[b]}

\* the objects of S from the position lo of the object table upwards
RECURSIVE TableOrder(_, _)
TableOrder(S, lo) ==
    IF lo > NumObjs THEN <<>>
    ELSE IF lo \in S THEN <<lo>> \o TableOrder(S, lo + 1)
    ELSE TableOrder(S, lo + 1)

Reverse(s) == [k \in DOMAIN s |-> s[Len(s) + 1 - k]]

\* the orders the host hands the objects out in when an operation runs: the
\* object table read oldest first or newest first (the scripts do not know
\* which; DeterministicAssignment covers every order of Orderings)
HostOrders(S) == {TableOrder(S, 1), Reverse(TableOrder(S, 1))}

Range(s) == {s[k] : k \in DOMAIN s}

(***************************************************************************)
(* rename_objects.py                                                       *)
(***************************************************************************)
\* the ids collected at the top of rename_objects_unique, get_object_name_stats
\* and list_object_info (as a set; the host chooses the order)
CollectIds(at, sel_only) ==
    IF sel_only THEN SelectedObjects(at)
    ELSE get_model_space_objects(at, TRUE, TRUE, FALSE, FALSE)

\* the name filter: (rs.ObjectName(obj_id) or "").strip()
IsNamed(nm, obj_id) == Strip(ObjectName(nm, obj_id)) # <<>>

\* the hidden / locked filter
IsShown(at, obj_id) == ~IsHidden(at, obj_id) /\ ~IsObjectLocked(at, obj_id)

\* CachedName without the  or "Object"
CachedNameRaw(nm, obj_id) == ObjectName(nm, obj_id)

\* nm = rs.ObjectName(obj_id) or "Object"
CachedName(nm, obj_id) ==
    IF ObjectName(nm, obj_id) # <<>> THEN ObjectName(nm, obj_id) ELSE FallbackName

\* name_counts of a dict  id -> name  over the ids of a sequence
CountNames(ids, nameOf) ==
    [n \in {nameOf[i] : i \in Range(ids)} |->
        Cardinality({k \in DOMAIN ids : nameOf[ids[k]] = n})]

\* DupNames with the test  c > 1  written  c >= 1
DupNamesAll(name_counts) ==
    [n \in {m \in DOMAIN name_counts : name_counts[m] >= 1} |-> name_counts[n]]

\* dup_names = dict((n, c) for (n, c) in name_counts.items() if c > 1)
DupNames(name_counts) ==
    [n \in {m \in DOMAIN name_counts : name_counts[m] > 1} |-> name_counts[n]]

\* _build_used_name_set
_build_used_name_set(nm, at) ==
    {ObjectName(nm, oid) : oid \in AllObjects(at, FALSE, FALSE)} \ {<<>>}

\* FirstFreeSuffix without the membership test: the cursor is taken as it is
FirstFreeSuffixUnchecked(base, suffix_fmt, used_names, n) == n

\* the while loop of _next_unique_with_cache: the first n from the cursor on
\* whose candidate is not in used_names
RECURSIVE FirstFreeSuffix(_, _, _, _)
FirstFreeSuffix(base, suffix_fmt, used_names, n) ==
    IF (base \o FormatSuffix(suffix_fmt, n)) \notin used_names THEN n
    ELSE FirstFreeSuffix(base, suffix_fmt, used_names, n + 1)

\* _next_unique_with_cache with  next_suffix_dict[base] = n  for  = n + 1
NextUniqueCursorStale(base0, suffix_fmt, used_names, next_suffix_dict) ==
    LET base  == IF base0 # <<>> THEN base0 ELSE FallbackName
        start == IF base \in DOMAIN next_suffix_dict
                 THEN next_suffix_dict[base] ELSE 1
        n     == FirstFreeSuffix(base, suffix_fmt, used_names, start)
        candidate == base \o FormatSuffix(suffix_fmt, n)
    IN  [new_name |-> candidate,
         used_names |-> used_names \cup {candidate},
         next_suffix |-> [b \in DOMAIN next_suffix_dict \cup {base} |->
                             IF b = base THEN n ELSE next_suffix_dict[b]]]

\* _next_unique_with_cache: the candidate, with used_names and next_suffix_dict
\* as the call leaves them
_next_unique_with_cache(base0, suffix_fmt, used_names, next_suffix_dict) ==
    LET base  == IF base0 # <<>> THEN base0 ELSE FallbackName
        start == IF base \in DOMAIN next_suffix_dict
                 THEN next_suffix_dict[base] ELSE 1
        n     == FirstFreeSuffix(base, suffix_fmt, used_names, start)
        candidate == base \o FormatSuffix(suffix_fmt, n)
    IN  [new_name |-> candidate,
         used_names |-> used_names \cup {candidate},
         next_suffix |-> [b \in DOMAIN next_suffix_dict \cup {base} |->
                             IF b = base THEN n + 1 ELSE next_suffix_dict[b]]]

\* SortKeyLess with the key  name_by_id[i]  alone
SortKeyLessByName(name_by_id, i, j) == StrLess(name_by_id[i], name_by_id[j])

\* the sort key (name_by_id[i], str(i)), compared as Python compares tuples
SortKeyLess(name_by_id, i, j) ==
    \/ StrLess(name_by_id[i], name_by_id[j])
    \/ /\ name_by_id[i] = name_by_id[j]
       /\ StrLess(StrOfId(i), StrOfId(j))

\* sorted(ids, key=...): a stable sort
RECURSIVE InsertSorted(_, _, _)
InsertSorted(x, s, name_by_id) ==
    IF s = <<>> THEN <<x>>
    ELSE IF SortKeyLess(name_by_id, x, Head(s)) THEN <<x>> \o s
    ELSE <<Head(s)>> \o InsertSorted(x, Tail(s), name_by_id)

RECURSIVE SortedIds(_, _)
SortedIds(ids, name_by_id) ==
    IF ids = <<>> THEN <<>>
    ELSE InsertSorted(ids[Len(ids)],
                      SortedIds(SubSeq(ids, 1, Len(ids) - 1), name_by_id),
                      name_by_id)


\* an empty dict
EmptyDict == [n \in {} |-> 0]

\* lines 285-296: the new name of one member of a duplicate group, with
\* used_names and next_suffix as the choice leaves them
ChooseNewName(base, suffix_fmt, used_names, next_suffix, assigned_base_once) ==
    IF base \notin assigned_base_once /\ base \notin used_names
    THEN [new_name |-> base,
          used_names |-> used_names \cup {base},
          next_suffix |-> next_suffix]
    ELSE _next_unique_with_cache(base, suffix_fmt, used_names, next_suffix)

\* RecordDecision writing the name in a dry run too
RecordDecisionAlwaysWrites(st, obj_id, current, new_name, dry_run) ==
    IF current = new_name THEN st
    ELSE [st EXCEPT !.names = SetObjectName(@, obj_id, new_name),
                    !.renamed = IF dry_run THEN @ ELSE @ + 1,
                    !.would_rename = IF dry_run THEN @ + 1 ELSE @,
                    !.decisions = @ \cup {<<obj_id, new_name>>}]

\* RecordDecision with the dry-run counter left out
RecordDecisionDryMiscount(st, obj_id, current, new_name, dry_run) ==
    IF current = new_name THEN st
    ELSE IF dry_run
    THEN [st EXCEPT !.decisions = @ \cup {<<obj_id, new_name>>}]
    ELSE [st EXCEPT !.names = SetObjectName(@, obj_id, new_name),
                    !.renamed = @ + 1,
                    !.decisions = @ \cup {<<obj_id, new_name>>}]

\* lines 298-309: a decision is written to the document (apply) or only
\* counted (dry run); st.decisions collects the printed (object, new name) pairs.
\* The write rs.ObjectName(obj_id, new_name) of line 304 raises when it is
\* the st.fail_at-th write of the run (st.fail_at = 0: the host never raises)
RecordDecision(st, obj_id, current, new_name, dry_run) ==
    IF current = new_name THEN st
    ELSE IF dry_run
    THEN [st EXCEPT !.would_rename = @ + 1,
                    !.decisions = @ \cup {<<obj_id, new_name>>}]
    ELSE IF st.fail_at = st.renamed + 1
    THEN [st EXCEPT !.raised = TRUE]
    ELSE [st EXCEPT !.names = SetObjectName(@, obj_id, new_name),
                    !.renamed = @ + 1,
                    !.decisions = @ \cup {<<obj_id, new_name>>}]

\* LoopBody without the test  if base not in dup_names: continue
LoopBodyNoDupTest(st, obj_id, name_by_id, dup_names, p) ==
    LET base == name_by_id[obj_id]
        c == ChooseNewName(base, p.suffix_fmt, st.used_names,
                           st.next_suffix, st.assigned_base_once)
        st1 == [st EXCEPT !.used_names = c.used_names,
                          !.next_suffix = c.next_suffix,
                          !.assigned_base_once = @ \cup {base}]
    IN  RecordDecision(st1, obj_id, name_by_id[obj_id], c.new_name, p.dry_run)

\* lines 279-309: one iteration of the rename loop
LoopBody(st, obj_id, name_by_id, dup_names, p) ==
    LET base == name_by_id[obj_id]
    IN  IF base \notin DOMAIN dup_names THEN st
        ELSE
          LET c == ChooseNewName(base, p.suffix_fmt, st.used_names,
                                 st.next_suffix, st.assigned_base_once)
              st1 == [st EXCEPT !.used_names = c.used_names,
                                !.next_suffix = c.next_suffix,
                                !.assigned_base_once = @ \cup {base}]
          IN  RecordDecision(st1, obj_id, name_by_id[obj_id], c.new_name,
                             p.dry_run)

RECURSIVE RenameLoop(_, _, _, _, _)
\* RenameLoop with an error undoing the writes made so far
RenameLoopRollsBack(st, ids_sorted, name_by_id, dup_names, p) ==
    IF st.raised
    THEN [st EXCEPT !.names = [i \in DOMAIN @ |->
                                  IF \E d \in st.decisions : d[1] = i
                                  THEN name_by_id[i] ELSE @[i]]]
    ELSE IF ids_sorted = <<>> THEN st
    ELSE RenameLoop(LoopBody(st, Head(ids_sorted), name_by_id, dup_names, p),
                    Tail(ids_sorted), name_by_id, dup_names, p)

\* for obj_id in ids_sorted: ...  ; an error raised in the body leaves the
\* loop, and no except clause undoes the writes made before it
RenameLoop(st, ids_sorted, name_by_id, dup_names, p) ==
    IF ids_sorted = <<>> \/ st.raised THEN st
    ELSE RenameLoop(LoopBody(st, Head(ids_sorted), name_by_id, dup_names, p),
                    Tail(ids_sorted), name_by_id, dup_names, p)

\* ids after the two optional filters of rename_objects_unique (lines 190-198)
FilterIds(nm, at, ids0, include_unnamed, include_hidden) ==
    LET Named(i) == IsNamed(nm, i)
        Shown(i) == IsShown(at, i)
        ids1 == IF ~include_unnamed THEN SelectSeq(ids0, Named) ELSE ids0
    IN  IF ~include_hidden THEN SelectSeq(ids1, Shown) ELSE ids1

\* name_by_id of lines 207-216
NameById(nm, ids) == [i \in Range(ids) |-> CachedName(nm, i)]

\* used_names of lines 246-252: the names of the document and of the census
UsedNames(nm, at, name_counts) ==
    _build_used_name_set(nm, at) \cup {n \in DOMAIN name_counts : n # <<>>}

\* lines 272-277: the state the rename loop starts in, rs.EnableRedraw(False)
\* being the one host call made so far
InitialLoopState(nm, used_names, fail_at) ==
    [names |-> nm, used_names |-> used_names,
     next_suffix |-> EmptyDict, assigned_base_once |-> {},
     renamed |-> 0, would_rename |-> 0, decisions |-> {},
     fail_at |-> fail_at, raised |-> FALSE, redraw_calls |-> <<FALSE>>]

\* Finally with rs.EnableRedraw(True) placed after the loop, not in a finally
FinallyAfterLoop(st) ==
    IF st.raised THEN st ELSE [st EXCEPT !.redraw_calls = Append(@, TRUE)]

\* finally: rs.EnableRedraw(True)  -- runs however the loop was left
Finally(st) == [st EXCEPT !.redraw_calls = Append(@, TRUE)]

\* how a call of rename_objects_unique ends: the document it leaves, what it
\* returns (ret_count, ret_stats), what it reports, and the arguments of its
\* rs.EnableRedraw calls in order
RenameResult(exit, names, ids, ret_count, ret_stats, renamed, would_rename, decisions, redraw_calls) ==
    [exit |-> exit, names |-> names, ids |-> ids,
     ret_count |-> ret_count, ret_stats |-> ret_stats,
     renamed |-> renamed, would_rename |-> would_rename,
     decisions |-> decisions, redraw_calls |-> redraw_calls]

\* lines 313-325 for a run whose loop and finally clause left the state st:
\* the report and the return, or the error passed on to the caller
RenameOutcome(st, ids, name_counts, dry_run) ==
    IF st.raised
    THEN RenameResult("error", st.names, ids, 0, EmptyDict,
                      st.renamed, st.would_rename, st.decisions,
                      st.redraw_calls)
    ELSE RenameResult("done", st.names, ids,
                      IF dry_run THEN 0 ELSE st.renamed,
                      name_counts, st.renamed, st.would_rename,
                      st.decisions, st.redraw_calls)

\* rename_objects_unique(selected_only, include_unnamed, include_hidden,
\* dry_run, suffix_fmt), the host returning the collected objects as ids0 and
\* raising on the fail_at-th name write (never, when fail_at = 0).  An error
\* is not caught: the call ends with exit "error" and returns nothing
RenameRun(nm, at, ids0, p, fail_at) ==
    IF ids0 = <<>>
    THEN RenameResult("no_objects", nm, {}, 0, EmptyDict, 0, 0, {}, <<>>)
    ELSE
      LET ids == FilterIds(nm, at, ids0, p.include_unnamed, p.include_hidden)
      IN
      IF ids = <<>>
      THEN RenameResult("no_named", nm, {}, 0, EmptyDict, 0, 0, {}, <<>>)
      ELSE
        LET name_by_id == NameById(nm, ids)
            name_counts == CountNames(ids, name_by_id)
            dup_names == DupNames(name_counts)
        IN
        IF DOMAIN dup_names = {}
        THEN RenameResult("no_duplicates", nm, Range(ids), 0, name_counts,
                          0, 0, {}, <<>>)
        ELSE
          LET used_names == UsedNames(nm, at, name_counts)
              ids_sorted == SortedIds(ids, name_by_id)
              st0 == InitialLoopState(nm, used_names, fail_at)
          IN  RenameOutcome(Finally(RenameLoop(st0, ids_sorted, name_by_id,
                                               dup_names, p)),
                            Range(ids), name_counts, p.dry_run)

\* a call of rename_objects_unique during which the host raises no error
rename_objects_unique(nm, at, ids0, p) == RenameRun(nm, at, ids0, p, 0)


(***************************************************************************)
(* view_object_names.py                                                    *)
(***************************************************************************)
\* get_object_name_stats(selected_only, include_unnamed, include_hidden), the
\* host returning the collected objects as ids0
get_object_name_stats(nm, at, ids0, p) ==
    IF ids0 = <<>>
    THEN [name_counts |-> EmptyDict, duplicates |-> EmptyDict, ids |-> <<>>]
    ELSE
      LET Named(i) == IsNamed(nm, i)
          Shown(i) == IsShown(at, i)
          ids1 == IF ~p.include_hidden THEN SelectSeq(ids0, Shown) ELSE ids0
          ids == IF ~p.include_unnamed THEN SelectSeq(ids1, Named) ELSE ids1
          raw == [i \in Range(ids) |-> ObjectName(nm, i)]
          name_counts == CountNames(ids, raw)
      IN  [name_counts |-> name_counts,
           duplicates |-> DupNames(name_counts),
           ids |-> ids]

\* the scan of list_object_info: one result per object, and the objects
\* printed under "** DUPLICATE **"
RECURSIVE ListScan(_, _, _, _, _)
ListScan(nm, at, ids, seen_names, include_description) ==
    IF ids = <<>> THEN [results |-> <<>>, flagged |-> {}]
    ELSE
      LET obj_id == Head(ids)
          nam == ObjectName(nm, obj_id)
          rest == ListScan(nm, at, Tail(ids), seen_names \cup {nam},
                           include_description)
          entry == [id |-> obj_id, name |-> nam,
                    description |-> IF include_description
                                    THEN at[obj_id].kind ELSE "None"]
      IN  [results |-> <<entry>> \o rest.results,
           flagged |-> IF nam \in seen_names
                       THEN {obj_id} \cup rest.flagged ELSE rest.flagged]

\* list_object_info(selected_only, include_unnamed, include_hidden,
\* include_description)
list_object_info(nm, at, ids0, p) ==
    IF ids0 = <<>> THEN [results |-> <<>>, flagged |-> {}]
    ELSE
      LET Named(i) == IsNamed(nm, i)
          Shown(i) == IsShown(at, i)
          ids1 == IF ~p.include_hidden THEN SelectSeq(ids0, Shown) ELSE ids0
          ids == IF ~p.include_unnamed THEN SelectSeq(ids1, Named) ELSE ids1
      IN  ListScan(nm, at, ids, {}, p.include_description)

(***************************************************************************)
(* Initial states: any document of NumObjs objects                         *)
(***************************************************************************)
\* the names an object may start with: unnamed, "Object", "Object 001"
InitialNames ==
    { <<>>,
      FallbackName,
      FallbackName \o FormatSuffix(DefaultSuffixFmt, 1) }

\* the kinds of object a document may hold: a selected model object, a hidden
\* (so unselected) model object, and a light
Profiles ==
    { [space |-> "ModelSpace", kind |-> "Geometry", hidden |-> FALSE,
       locked |-> FALSE, selected |-> TRUE],
      [space |-> "ModelSpace", kind |-> "Geometry", hidden |-> TRUE,
       locked |-> FALSE, selected |-> FALSE],
      [space |-> "ModelSpace", kind |-> "Light", hidden |-> FALSE,
       locked |-> FALSE, selected |-> FALSE] }

\* nothing has run yet
NoCall(op) ==
    [op |-> op, skipped |-> FALSE, again |-> FALSE, resumed |-> FALSE,
     prior_renamed |-> 0, args |-> <<>>, before |-> <<>>, res |-> <<>>]

Init ==
    /\ name \in [Ids -> InitialNames]
    /\ attr \in [Ids -> Profiles]
    /\ redraw = TRUE
    /\ selected_only = FALSE
    /\ pc = "idle"
    /\ last = NoCall("None")

(***************************************************************************)
(* The scripts run on their own: pc = "idle" before anything has run,      *)
(* pc = "script" once a script has been run                                *)
(***************************************************************************)
RenameArgs(sel, unnamed, hidden_, dry) ==
    [selected_only |-> sel, include_unnamed |-> unnamed,
     include_hidden |-> hidden_, dry_run |-> dry,
     suffix_fmt |-> DefaultSuffixFmt]

ViewArgs(sel, unnamed, hidden_) ==
    [selected_only |-> sel, include_unnamed |-> unnamed,
     include_hidden |-> hidden_, include_description |-> TRUE]

\* the last operation was a call of rename_objects_unique that an error ended
Failed(l) ==
    /\ l.op \in {"RenameDry", "RenameApply", "rename_objects_unique"}
    /\ ~l.skipped
    /\ l.res.exit = "error"

\* the operation op with the arguments p repeats the operation run just
\* before, which ran to its end
Repeats(op, p) ==
    last.op = op /\ ~last.skipped /\ last.args = p /\ ~Failed(last)

\* the operation op with the arguments p is run again after an error ended it
Resumes(op, p) ==
    last.op = op /\ ~last.skipped /\ last.args = p /\ Failed(last)

\* the value rs.EnableRedraw calls leave the host's redraw flag with
RedrawAfter(rd, redraw_calls) ==
    IF redraw_calls = <<>> THEN rd ELSE redraw_calls[Len(redraw_calls)]

\* a call of rename_objects_unique: the document is left as the call leaves
\* it.  The host may raise on any one of the name writes the call makes
DoRename(op, p) ==
    \E ids0 \in HostOrders(CollectIds(attr, p.selected_only)) :
        \E full \in {rename_objects_unique(name, attr, ids0, p)} :
        \E fail_at \in 0 .. full.renamed :
        \E r \in {IF fail_at = 0 THEN full
                  ELSE RenameRun(name, attr, ids0, p, fail_at)} :
                /\ name' = r.names
                /\ redraw' = RedrawAfter(redraw, r.redraw_calls)
                /\ last' = [op |-> op, skipped |-> FALSE,
                            again |-> Repeats(op, p),
                            resumed |-> Resumes(op, p),
                            prior_renamed |-> IF Resumes(op, p)
                                              THEN last.res.renamed ELSE 0,
                            args |-> p,
                            before |-> name, res |-> r]

\* a call of get_object_name_stats; the returned ids are reported as a set
DoStats(op, p) ==
    \E ids0 \in HostOrders(CollectIds(attr, p.selected_only)) :
        \E r \in {get_object_name_stats(name, attr, ids0, p)} :
            /\ name' = name
            /\ redraw' = redraw
            /\ last' = [op |-> op, skipped |-> FALSE,
                        again |-> Repeats(op, p), resumed |-> FALSE,
                        prior_renamed |-> 0, args |-> p,
                        before |-> name,
                        res |-> [name_counts |-> r.name_counts,
                                 duplicates |-> r.duplicates,
                                 ids |-> Range(r.ids)]]

\* a call of list_object_info; the listing is reported by its size and by the
\* number of "** DUPLICATE **" marks
DoList(op, p) ==
    \E ids0 \in HostOrders(CollectIds(attr, p.selected_only)) :
        \E r \in {list_object_info(name, attr, ids0, p)} :
            /\ name' = name
            /\ redraw' = redraw
            /\ last' = [op |-> op, skipped |-> FALSE,
                        again |-> Repeats(op, p), resumed |-> FALSE,
                        prior_renamed |-> 0, args |-> p,
                        before |-> name,
                        res |-> [listed |-> Len(r.results),
                                 marks |-> Cardinality(r.flagged)]]

CallRename ==
    /\ pc = "idle"
    /\ \E sel, unnamed, hidden_, dry \in BOOLEAN :
          DoRename("rename_objects_unique",
                   RenameArgs(sel, unnamed, hidden_, dry))
    /\ pc' = "script"
    /\ UNCHANGED <<attr, selected_only>>

\* the same call run again, nothing else having touched the document
CallRenameAgain ==
    /\ pc = "script"
    /\ last.op = "rename_objects_unique"
    /\ DoRename("rename_objects_unique", last.args)
    /\ UNCHANGED <<attr, selected_only, pc>>

\* view_object_names.py run as a script (lines 194-199): the statistics, then
\* the listing, of all model objects
RunViewScript ==
    /\ pc = "idle"
    /\ \E ids0 \in HostOrders(CollectIds(attr, FALSE)) :
          LET p == ViewArgs(FALSE, TRUE, TRUE)
              r == get_object_name_stats(name, attr, ids0, p)
              l == list_object_info(name, attr, ids0, p)
          IN  /\ name' = name
              /\ redraw' = redraw
              /\ last' = [op |-> "view_object_names", skipped |-> FALSE,
                          again |-> FALSE, resumed |-> FALSE,
                          prior_renamed |-> 0, args |-> p, before |-> name,
                          res |-> [name_counts |-> r.name_counts,
                                   duplicates |-> r.duplicates,
                                   ids |-> Range(r.ids),
                                   listed |-> Len(l.results),
                                   marks |-> Cardinality(l.flagged)]]
    /\ pc' = "script"
    /\ UNCHANGED <<attr, selected_only>>

(***************************************************************************)
(* toolkit.py: the menu loop of main                                       *)
(***************************************************************************)
\* main starts: selected_only = False, then the first prompt
Launch ==
    /\ pc = "idle"
    /\ pc' = "prompt"
    /\ selected_only' = FALSE
    /\ last' = NoCall("Launch")
    /\ UNCHANGED <<name, attr, redraw>>

\* rs.GetString returns nothing: "Toolbox cancelled."
Cancel ==
    /\ pc = "prompt"
    /\ pc' = "done"
    /\ last' = NoCall("Cancel")
    /\ UNCHANGED <<name, attr, redraw, selected_only>>

Exit ==
    /\ pc = "prompt"
    /\ pc' = "done"
    /\ last' = NoCall("Exit")
    /\ UNCHANGED <<name, attr, redraw, selected_only>>

ToggleSelected ==
    /\ pc = "prompt"
    /\ selected_only' = ~selected_only
    /\ last' = NoCall("SelectedObjects")
    /\ UNCHANGED <<name, attr, redraw, pc>>

\* NoSelection with the validation left out
NoSelectionUnchecked(at, sel_only) == FALSE

\* lines 104-110: selected-only mode is ON and nothing is selected
NoSelection(at, sel_only) == sel_only /\ SelectedObjects(at) = {}

\* the requested operation is skipped and the loop continues
Skip(mode) ==
    /\ last' = [NoCall(mode) EXCEPT !.skipped = TRUE]
    /\ name' = name
    /\ redraw' = redraw

MenuNameStats ==
    /\ pc = "prompt"
    /\ IF NoSelection(attr, selected_only) THEN Skip("NameStats")
       ELSE DoStats("NameStats", ViewArgs(selected_only, TRUE, TRUE))
    /\ UNCHANGED <<attr, selected_only, pc>>

MenuListNames ==
    /\ pc = "prompt"
    /\ IF NoSelection(attr, selected_only) THEN Skip("ListNames")
       ELSE DoList("ListNames", ViewArgs(selected_only, TRUE, TRUE))
    /\ UNCHANGED <<attr, selected_only, pc>>

MenuRenameDry ==
    /\ pc = "prompt"
    /\ IF NoSelection(attr, selected_only) THEN Skip("RenameDry")
       ELSE DoRename("RenameDry", RenameArgs(selected_only, TRUE, TRUE, TRUE))
    /\ UNCHANGED <<attr, selected_only, pc>>

MenuRenameApply ==
    /\ pc = "prompt"
    /\ IF NoSelection(attr, selected_only) THEN Skip("RenameApply")
       ELSE DoRename("RenameApply", RenameArgs(selected_only, TRUE, TRUE, FALSE))
    /\ pc' = IF Failed(last') THEN "aborted" ELSE pc
    /\ UNCHANGED <<attr, selected_only>>

Next ==
    \/ CallRename
    \/ CallRenameAgain
    \/ RunViewScript
    \/ Launch
    \/ Cancel
    \/ Exit
    \/ ToggleSelected
    \/ MenuNameStats
    \/ MenuListNames
    \/ MenuRenameDry
    \/ MenuRenameApply

Spec == Init /\ [][Next]_vars


(***************************************************************************)
(* Vocabulary of the properties                                            *)
(***************************************************************************)
\* the last operation was a call of rename_objects_unique that ran to its end
IsRename(l) ==
    /\ l.op \in {"RenameDry", "RenameApply", "rename_objects_unique"}
    /\ ~l.skipped
    /\ ~Failed(l)

IsApply(l) == IsRename(l) /\ ~l.args.dry_run

IsDryRun(l) == IsRename(l) /\ l.args.dry_run

\* the working set of an operation: the collected objects that pass the
\* filters asked for
WorkingSet(nm, at, p) ==
    {i \in CollectIds(at, p.selected_only) :
        /\ (p.include_unnamed \/ Strip(nm[i]) # <<>>)
        /\ (p.include_hidden \/ (~at[i].hidden /\ ~at[i].locked))}

\* the name an object is counted under: its name, "Object" when it has none
CensusName(nm, i) == IF nm[i] = <<>> THEN FallbackName ELSE nm[i]

\* the members of the working set counted under the name n
Group(nm, at, p, n) == {i \in WorkingSet(nm, at, p) : CensusName(nm, i) = n}

\* the name census of the working set
Census(nm, at, p) ==
    [n \in {CensusName(nm, i) : i \in WorkingSet(nm, at, p)} |->
        Cardinality(Group(nm, at, p, n))]

\* the names that are duplicate groups of the working set
DuplicateGroups(nm, at, p) ==
    {n \in DOMAIN Census(nm, at, p) : Census(nm, at, p)[n] > 1}

\* the objects whose name the last operation changed
Changed == {i \in Ids : name[i] # last.before[i]}

(***************************************************************************)
(* C1  After an apply run of rename_objects_unique, no two distinct        *)
(* objects of the working set have the same name; in particular no two     *)
(* share a name that was a duplicate group before the run.                 *)
(***************************************************************************)
UniqueAfterApply ==
    IsApply(last) =>
        \A i, j \in WorkingSet(last.before, attr, last.args) :
            i # j => /\ name[i] # name[j]
                     /\ ~(\E n \in DuplicateGroups(last.before, attr, last.args) :
                            name[i] = n /\ name[j] = n)

\* an apply run that renamed the members of a duplicate group next to a
\* working-set object that already held a suffixed name
UniqueAfterApplyWitness ==
    /\ IsApply(last)
    /\ last.res.renamed >= 2
    /\ \E i \in WorkingSet(last.before, attr, last.args) :
          /\ i \notin Changed
          /\ name[i] = FallbackName \o FormatSuffix(DefaultSuffixFmt, 1)

(***************************************************************************)
(* C2  Idempotence: an apply run that repeats the apply run just before    *)
(* it (same working set, nothing else changed in between) renames zero     *)
(* objects: it returns the count 0 and leaves every name as it was.        *)
(***************************************************************************)
SecondRunRenamesNothing ==
    (IsApply(last) /\ last.again) =>
        /\ last.res.ret_count = 0
        /\ last.res.renamed = 0
        /\ name = last.before

\* a repeated apply run on a document whose names the first run had changed
SecondRunWitness ==
    /\ IsApply(last)
    /\ last.again
    /\ \E i \in WorkingSet(last.before, attr, last.args) :
          name[i] \notin InitialNames

(***************************************************************************)
(* C3  First-occurrence preference: in an apply run, for every duplicate   *)
(* group whose base name is used by no object outside the group, exactly   *)
(* one member, the first in (name, id) order, keeps the base name and the  *)
(* others are renamed: the renamed count of the group is its size minus 1. *)
(***************************************************************************)
\* the first member of a group in (name, id) order: all its members are
\* counted under the same name, so the identifier decides
FirstOfGroup(G) ==
    CHOOSE i \in G : \A j \in G : j = i \/ StrLess(StrOfId(i), StrOfId(j))

FirstOccurrenceKeepsBase ==
    IsApply(last) =>
        \A n \in DuplicateGroups(last.before, attr, last.args) :
            LET G == Group(last.before, attr, last.args, n)
            IN  (\A o \in Ids \ G : last.before[o] # n) =>
                    /\ G \ Changed = {FirstOfGroup(G)}
                    /\ Cardinality(G \cap Changed) = Cardinality(G) - 1

(***************************************************************************)
(* C4  The name of every object is changed only by a RenameApply action of *)
(* the menu: SelectedObjects, NameStats, ListNames and RenameDry leave     *)
(* every name as it was (and so does a dry run called directly).           *)
(***************************************************************************)
OnlyApplyChangesNames ==
    [][/\ (pc = "prompt" /\ last'.op # "RenameApply") => name' = name
       /\ IsDryRun(last') => name' = name]_vars

\* a dry run of the menu that reported decisions and wrote none of them
DryRunWitness ==
    /\ pc = "prompt"
    /\ last.op = "RenameDry"
    /\ ~last.skipped
    /\ last.res.would_rename >= 2
    /\ name = last.before

(***************************************************************************)
(* C5  For the same document, working set and suffix pattern, the "would   *)
(* rename" count of a dry run equals the "renamed" count an apply run      *)
(* reports and returns, and both modes take the same (object, new name)    *)
(* decisions.                                                              *)
(***************************************************************************)
\* the run of the other mode on the document the last run started from
OtherMode ==
    rename_objects_unique(
        last.before, attr,
        TableOrder(CollectIds(attr, last.args.selected_only), 1),
        [last.args EXCEPT !.dry_run = ~@])

DryRunAgreesWithApply ==
    IsRename(last) =>
        \A other \in {OtherMode} :
        LET dry == IF last.args.dry_run THEN last.res ELSE other
            app == IF last.args.dry_run THEN other ELSE last.res
        IN  /\ dry.would_rename = app.renamed
            /\ app.ret_count = app.renamed
            /\ dry.decisions = app.decisions

\* a dry run with decisions to report
DryRunAgreesWitness ==
    /\ IsDryRun(last)
    /\ last.res.would_rename >= 2
    /\ OtherMode.renamed >= 2


(***************************************************************************)
(* C6  Deterministic assignment: for a fixed document the new name of      *)
(* every object is the same whatever the order in which the host returns   *)
(* the objects of the working set.                                         *)
(***************************************************************************)
DeterministicAssignment ==
    IsRename(last) =>
        \A ids0 \in Orderings(CollectIds(attr, last.args.selected_only)) :
            \A r \in {rename_objects_unique(last.before, attr, ids0,
                                            last.args)} :
                /\ r.decisions = last.res.decisions
                /\ r.names = last.res.names
                /\ r.ret_count = last.res.ret_count

\* a run that took decisions for the members of a duplicate group
DeterministicWitness ==
    /\ IsRename(last)
    /\ Cardinality(last.res.decisions) >= 2
    /\ Cardinality(Orderings(CollectIds(attr, last.args.selected_only))) >= 2

(***************************************************************************)
(* C7  Global uniqueness of new names: the used-name set built before      *)
(* renaming holds every name of every object of the document, whatever its *)
(* kind or space, so a name newly assigned by an apply run differs from    *)
(* the name of every other object of the whole document.                   *)
(***************************************************************************)
NewNamesGloballyUnique ==
    IsApply(last) =>
        \A i \in Changed : \A o \in Ids \ {i} :
            name[i] # name[o] /\ name[i] # last.before[o]

(***************************************************************************)
(* C8  No-op short-circuits: with an empty working set the call returns    *)
(* (0, {}); with a working set in which no name occurs twice it returns    *)
(* (0, census); in both cases, dry run or not, no name is changed.         *)
(***************************************************************************)
NoOpShortCircuits ==
    IsRename(last) =>
        LET ws == WorkingSet(last.before, attr, last.args)
        IN  /\ ws = {} =>
                  /\ last.res.ret_count = 0
                  /\ last.res.ret_stats = EmptyDict
                  /\ name = last.before
            /\ (ws # {} /\ DuplicateGroups(last.before, attr, last.args) = {}) =>
                  /\ last.res.ret_count = 0
                  /\ last.res.ret_stats = Census(last.before, attr, last.args)
                  /\ name = last.before

\* an apply run over a working set of unnamed and named objects, none of
\* them sharing a name
NoOpWitness ==
    /\ IsApply(last)
    /\ last.res.exit = "no_duplicates"
    /\ Cardinality(WorkingSet(last.before, attr, last.args)) >= 2
    /\ \E i \in WorkingSet(last.before, attr, last.args) : last.before[i] = <<>>

(***************************************************************************)
(* C9  For the same working set and filters, the census of the NameStats   *)
(* report (name -> count, and the duplicate groups) is the census          *)
(* rename_objects_unique computes, unnamed objects counted under "Object". *)
(***************************************************************************)
StatsCensusIsRenameCensus ==
    (last.op \in {"NameStats", "view_object_names"} /\ ~last.skipped) =>
        LET p == RenameArgs(last.args.selected_only, last.args.include_unnamed,
                            last.args.include_hidden, TRUE)
            r == rename_objects_unique(
                    last.before, attr,
                    TableOrder(CollectIds(attr, p.selected_only), 1), p)
        IN  /\ last.res.name_counts = r.ret_stats
            /\ last.res.duplicates = DupNames(r.ret_stats)

(***************************************************************************)
(* C10  In the menu loop, when selected-only mode is ON and nothing is     *)
(* selected, a requested NameStats, ListNames, RenameDry or RenameApply    *)
(* is skipped: the operation is not invoked, no name changes, the mode     *)
(* keeps its value and the loop is back at the prompt.  The mode flips     *)
(* only on SelectedObjects; the loop ends only on Exit or on a cancelled   *)
(* prompt.  (An error the host raises inside an operation is not an end    *)
(* of the loop: it is not caught and aborts main, pc = "aborted".)         *)
(***************************************************************************)
MenuOperations == {"NameStats", "ListNames", "RenameDry", "RenameApply"}

EmptySelectionSkips ==
    [][/\ ( /\ pc = "prompt"
            /\ selected_only
            /\ SelectedObjects(attr) = {}
            /\ last'.op \in MenuOperations )
          => /\ last'.skipped
             /\ last'.res = <<>>
             /\ name' = name
             /\ selected_only' = selected_only
             /\ pc' = "prompt"
       /\ selected_only' # selected_only => last'.op = "SelectedObjects"
       /\ (pc = "prompt" /\ pc' # "prompt") =>
              \/ pc' = "done" /\ last'.op \in {"Exit", "Cancel"}
              \/ pc' = "aborted" /\ Failed(last')]_vars

\* a RenameApply that was skipped over a document with a duplicate group
EmptySelectionWitness ==
    /\ pc = "prompt"
    /\ selected_only
    /\ last.op = "RenameApply"
    /\ last.skipped
    /\ DuplicateGroups(name, attr, RenameArgs(FALSE, TRUE, TRUE, FALSE)) # {}

(***************************************************************************)
(* C11  Frame of an apply run: rename_objects_unique changes the name only *)
(* of objects that are in the working set and whose name before the run    *)
(* is a duplicate group of the working-set census.  Every object outside   *)
(* the working set, and every object of the working set whose name occurs  *)
(* once in the census, has the name it had before the run.                 *)
(***************************************************************************)
InDuplicateGroup(nm, at, p, i) ==
    /\ i \in WorkingSet(nm, at, p)
    /\ CensusName(nm, i) \in DuplicateGroups(nm, at, p)

FrameOfApply ==
    IsApply(last) =>
        \A i \in Ids :
            \/ name[i] = last.before[i]
            \/ InDuplicateGroup(last.before, attr, last.args, i)

\* an apply run that renamed a duplicate group while an object outside the
\* working set carried the name of that group
FrameOfApplyWitness ==
    /\ IsApply(last)
    /\ Changed # {}
    /\ \E i \in Ids \ WorkingSet(last.before, attr, last.args) :
           /\ last.before[i] \in DuplicateGroups(last.before, attr, last.args)
           /\ name[i] = last.before[i]

(***************************************************************************)
(* C12  Suffix assignment.  Within one run, each call of                   *)
(* _next_unique_with_cache for a base returns base + format(n) for the     *)
(* smallest n >= cursor[base] (1 when the base has no cursor yet) whose    *)
(* candidate is not in used_names, adds that candidate to used_names and   *)
(* sets cursor[base] = n + 1.  Hence the suffix numbers given to the       *)
(* members of one duplicate group strictly increase in (name, id)          *)
(* traversal order, start at 1, skip exactly the numbers whose suffixed    *)
(* name is already in use (in used_names), and are never reused.           *)
(***************************************************************************)
\* no run gives a number above this: NumObjs objects hold at most one name
\* of a base's suffixed names each
MaxSuffix == NumObjs + 1

\* the number n with nm = base + format(n); 0 when nm is not of that form
SuffixNumber(base, suffix_fmt, nm) ==
    IF \E n \in 1 .. MaxSuffix : nm = base \o FormatSuffix(suffix_fmt, n)
    THEN CHOOSE n \in 1 .. MaxSuffix : nm = base \o FormatSuffix(suffix_fmt, n)
    ELSE 0

\* the run recorded in l, as rename_objects_unique prepares it
RunPlan(l) ==
    LET ids == FilterIds(l.before, attr,
                         TableOrder(CollectIds(attr, l.args.selected_only), 1),
                         l.args.include_unnamed, l.args.include_hidden)
        name_by_id == NameById(l.before, ids)
        name_counts == CountNames(ids, name_by_id)
    IN  [name_by_id |-> name_by_id,
         dup_names |-> DupNames(name_counts),
         used_names |-> UsedNames(l.before, attr, name_counts),
         order |-> SortedIds(ids, name_by_id)]

\* the loop state of the run after its first k iterations
LoopStateAt(plan, l, k) ==
    RenameLoop(InitialLoopState(l.before, plan.used_names, 0),
               SubSeq(plan.order, 1, k), plan.name_by_id, plan.dup_names,
               l.args)

\* an iteration that starts in the loop state st with the name base calls
\* _next_unique_with_cache
CallsNextUnique(plan, st, base) ==
    /\ base \in DOMAIN plan.dup_names
    /\ ~(base \notin st.assigned_base_once /\ base \notin st.used_names)

\* what the call c made in the loop state st is given and what it leaves,
\* st1 being the loop state after the iteration of the object obj_id
NextUniqueCallIsExact(l, st, st1, c, obj_id, base) ==
    LET fmt == l.args.suffix_fmt
        start == IF base \in DOMAIN st.next_suffix
                 THEN st.next_suffix[base] ELSE 1
        n == SuffixNumber(base, fmt, c.new_name)
    IN  /\ n >= start
        /\ c.new_name \notin st.used_names
        /\ \A m \in start .. n - 1 :
              (base \o FormatSuffix(fmt, m)) \in st.used_names
        /\ c.used_names = st.used_names \cup {c.new_name}
        /\ DOMAIN c.next_suffix = DOMAIN st.next_suffix \cup {base}
        /\ c.next_suffix[base] = n + 1
        /\ \A b \in DOMAIN st.next_suffix \ {base} :
              c.next_suffix[b] = st.next_suffix[b]
        /\ st1.used_names = c.used_names
        /\ st1.next_suffix = c.next_suffix
        /\ c.new_name # base => <<obj_id, c.new_name>> \in l.res.decisions

\* the numbers the run gave to the members of the duplicate group base
GivenNumbers(plan, l, base) ==
    {SuffixNumber(base, l.args.suffix_fmt, d[2]) :
        d \in {e \in l.res.decisions : plan.name_by_id[e[1]] = base}}

GroupNumbersAscend(plan, l, base) ==
    LET order == plan.order
        fmt == l.args.suffix_fmt
        NumberOf(i) ==
            SuffixNumber(base, fmt,
                         (CHOOSE d \in l.res.decisions : d[1] = i)[2])
        members == {k \in DOMAIN order :
                       /\ plan.name_by_id[order[k]] = base
                       /\ \E d \in l.res.decisions : d[1] = order[k]}
    IN  \A Given \in {GivenNumbers(plan, l, base)} :
        /\ 0 \notin Given
        /\ \A j, k \in members :
              j < k => NumberOf(order[j]) < NumberOf(order[k])
        /\ \A m \in 1 .. MaxSuffix :
              (\E g \in Given : m <= g) =>
                  (m \in Given <=>
                      (base \o FormatSuffix(fmt, m)) \notin plan.used_names)
        /\ Cardinality(Given) = Cardinality(members)

SuffixAssignment ==
    (IsRename(last) /\ last.res.exit = "done") =>
        \A plan \in {RunPlan(last)} :
            /\ \A k \in DOMAIN plan.order :
                  \A st \in {LoopStateAt(plan, last, k - 1)} :
                  \A base \in {plan.name_by_id[plan.order[k]]} :
                      CallsNextUnique(plan, st, base) =>
                          \A c \in {_next_unique_with_cache(
                                        base, last.args.suffix_fmt,
                                        st.used_names, st.next_suffix)} :
                          \A st1 \in {LoopStateAt(plan, last, k)} :
                              NextUniqueCallIsExact(last, st, st1, c,
                                                    plan.order[k], base)
            /\ \A base \in DOMAIN plan.dup_names :
                  GroupNumbersAscend(plan, last, base)

\* a run that gave the number 3 to a member of a group of two, the name with
\* the number 1 being in use before the run
SuffixAssignmentWitness ==
    /\ IsRename(last)
    /\ last.res.exit = "done"
    /\ \E plan \in {RunPlan(last)} :
       \E base \in DOMAIN plan.dup_names :
          /\ GivenNumbers(plan, last, base) = {2, 3}
          /\ (base \o FormatSuffix(last.args.suffix_fmt, 1))
                 \in plan.used_names

(***************************************************************************)
(* C13  Redraw is always resumed.  Whenever rename_objects_unique has      *)
(* suspended host redraw (rs.EnableRedraw(False)) before the rename loop,  *)
(* redraw is enabled again (rs.EnableRedraw(True)) however the loop is     *)
(* left, also when a name write raises an error part-way through; redraw   *)
(* is never left suspended after the function has returned or failed.      *)
(***************************************************************************)
\* the last operation was a call of rename_objects_unique, ended or failed
IsRenameCall(l) ==
    /\ l.op \in {"RenameDry", "RenameApply", "rename_objects_unique"}
    /\ ~l.skipped

RedrawResumed ==
    /\ redraw
    /\ IsRenameCall(last) =>
          (FALSE \in Range(last.res.redraw_calls) =>
              last.res.redraw_calls = <<FALSE, TRUE>>)

\* an apply run that an error ended after it had renamed an object: redraw
\* was suspended, then resumed
RedrawResumedWitness ==
    /\ Failed(last)
    /\ Changed # {}
    /\ last.res.redraw_calls = <<FALSE, TRUE>>
    /\ redraw

(***************************************************************************)
(* C14  Interruption and convergence.  If an apply run is interrupted      *)
(* after a prefix of its renames, the objects already renamed keep their   *)
(* new names and the objects not yet reached keep their old names: nothing *)
(* is rolled back.  One complete apply run made again on the document so   *)
(* left leaves the working set with no shared names, and a further run     *)
(* after it renames nothing.                                               *)
(***************************************************************************)
\* the run recorded in l, had the host raised no error
CompleteRun(l) ==
    rename_objects_unique(l.before, attr,
                          TableOrder(CollectIds(attr, l.args.selected_only), 1),
                          l.args)

\* the objects the complete run full renames, as positions of its traversal
\* order
RenamePositions(l, full, order) ==
    {k \in DOMAIN order : full.names[order[k]] # l.before[order[k]]}

\* the objects of the first n renames of the complete run
FirstRenamed(order, positions, n) ==
    {order[k] : k \in {k \in positions :
        Cardinality({j \in positions : j <= k}) <= n}}

\* the interrupted run left exactly its first last.res.renamed renames
PrefixKept ==
    \A full \in {CompleteRun(last)} :
    \A order \in {RunPlan(last).order} :
    \A kept \in {FirstRenamed(order, RenamePositions(last, full, order),
                              last.res.renamed)} :
        /\ last.res.renamed < full.renamed
        /\ Cardinality(kept) = last.res.renamed
        /\ \A i \in Ids :
              name[i] = IF i \in kept THEN full.names[i] ELSE last.before[i]

\* a run of the last call made once more renames nothing
FurtherRunRenamesNothing ==
    \A ids0 \in HostOrders(CollectIds(attr, last.args.selected_only)) :
        \A r \in {rename_objects_unique(name, attr, ids0, last.args)} :
            /\ r.names = name
            /\ r.renamed = 0
            /\ r.ret_count = 0
            /\ r.decisions = {}

InterruptionConverges ==
    /\ (Failed(last) /\ ~last.args.dry_run) => PrefixKept
    /\ (IsApply(last) /\ last.resumed) =>
          /\ \A i, j \in WorkingSet(name, attr, last.args) :
                i # j => name[i] # name[j]
          /\ FurtherRunRenamesNothing

\* a complete apply run that renamed the rest of a duplicate group after an
\* interrupted run had renamed a part of it
InterruptionConvergesWitness ==
    /\ IsApply(last)
    /\ last.resumed
    /\ last.prior_renamed >= 1
    /\ Changed # {}

=============================================================================
